---- MODULE Spec2Model ----
(***************************************************************************)
(* A model of serial/open_darwin.go: the translation of OpenOptions into a *)
(* termios record (convertOptions), the TIOCSETA ioctl wrapper             *)
(* (setTermios) and the open sequence (openInternal).                      *)
(*                                                                         *)
(* One behaviour is one call of openInternal.  The caller's OpenOptions    *)
(* are chosen in Init; the outcome of each system call (the descriptor     *)
(* handed out, r1, errno) is chosen by the action that issues it.          *)
(***************************************************************************)
EXTENDS Integers, Sequences, FiniteSets

(***************************************************************************)
(* Bounds of the model.                                                    *)
(***************************************************************************)
\* errno values range over 0..MaxErrno (0 = no error)
MaxErrno == 2
\* the r1 return value of a system call ranges over 0..MaxR1
MaxR1 == 2
\* descriptors handed out by the OS range over 3..MaxFd
MaxFd == 4
\* OpenOptions.DataBits ranges over 0..MaxDataBits
MaxDataBits == 9
\* OpenOptions.BaudRate ranges over every rate of the switch and every value
\* within BaudSlack of one
BaudSlack == 1

(***************************************************************************)
(* sys/termios.h constants.                                                *)
(***************************************************************************)
CS5 == 0
CS6 == 256
CS7 == 512
CS8 == 768
CLOCAL == 32768
CREAD == 2048
IGNPAR == 4
NCCS == 20
VMIN == 16
VTIME == 17

(***************************************************************************)
(* Integer types of the termios struct.  cc_t is a byte.  tcflag_t and     *)
(* speed_t are uint64; every value of the model is far below 2^64, where   *)
(* the conversion from the option's unsigned integer keeps the value.      *)
(***************************************************************************)
cc_t(n) == n % 256

speed_t(n) == n

RECURSIVE BitOr(_, _)
\* a | b on naturals
BitOr(a, b) ==
    IF a = 0 THEN b
    ELSE IF b = 0 THEN a
    ELSE (IF a % 2 = 1 \/ b % 2 = 1 THEN 1 ELSE 0) + 2 * BitOr(a \div 2, b \div 2)

(***************************************************************************)
(* os.Error values.  Nil is the nil error.                                 *)
(***************************************************************************)
Nil == [type |-> "nil", text |-> "", errno |-> 0]

\* os.NewError(text)
NewError(text) == [type |-> "ErrorString", text |-> text, errno |-> 0]

\* os.NewSyscallError(syscall, errno): nil when errno is 0
NewSyscallError(name, errno) ==
    IF errno = 0 THEN Nil
    ELSE [type |-> "SyscallError", text |-> name, errno |-> errno]

\* the *PathError os.OpenFile returns when open(2) fails
PathError(path, errno) == [type |-> "PathError", text |-> path, errno |-> errno]

(***************************************************************************)
(* The termios struct.                                                     *)
(***************************************************************************)
\* var result termios: the zero value
ZeroTermios ==
    [c_iflag |-> 0, c_oflag |-> 0, c_cflag |-> 0, c_lflag |-> 0,
     c_cc |-> [i \in 0 .. NCCS - 1 |-> 0], c_ispeed |-> 0, c_ospeed |-> 0]

\* a nil *termios
NilTermios == [nil |-> TRUE]

\* the case labels of the BaudRate switch
BaudRateCases ==
    {50, 75, 110, 134, 150, 200, 300, 600, 1200, 1800, 2400, 4800, 7200, 9600,
     14400, 19200, 28800, 38400, 57600, 76800, 115200, 230400}

\* FixedSettings without the line that sets CREAD
FixedSettings_NoCread ==
    LET r1 == [ZeroTermios EXCEPT !.c_cflag = BitOr(@, CLOCAL)]
        r3 == [r1 EXCEPT !.c_iflag = BitOr(@, IGNPAR)]
        r4 == [r3 EXCEPT !.c_cc[VTIME] = cc_t(0)]
    IN  [r4 EXCEPT !.c_cc[VMIN] = cc_t(1)]

\* FixedSettings with the values of VTIME and VMIN exchanged
FixedSettings_SwappedCc ==
    LET r1 == [ZeroTermios EXCEPT !.c_cflag = BitOr(@, CLOCAL)]
        r2 == [r1 EXCEPT !.c_cflag = BitOr(@, CREAD)]
        r3 == [r2 EXCEPT !.c_iflag = BitOr(@, IGNPAR)]
        r4 == [r3 EXCEPT !.c_cc[VTIME] = cc_t(1)]
    IN  [r4 EXCEPT !.c_cc[VMIN] = cc_t(0)]

\* the fixed settings made before the two switches
FixedSettings ==
    LET r1 == [ZeroTermios EXCEPT !.c_cflag = BitOr(@, CLOCAL)]
        r2 == [r1 EXCEPT !.c_cflag = BitOr(@, CREAD)]
        r3 == [r2 EXCEPT !.c_iflag = BitOr(@, IGNPAR)]
        r4 == [r3 EXCEPT !.c_cc[VTIME] = cc_t(0)]
    IN  [r4 EXCEPT !.c_cc[VMIN] = cc_t(1)]

\* WithSpeed that sets the input speed only
WithSpeed_InputOnly(result, baud) ==
    [result EXCEPT !.c_ispeed = speed_t(baud)]

\* the speed fields, set after the BaudRate switch
WithSpeed(result, baud) ==
    [result EXCEPT !.c_ispeed = speed_t(baud), !.c_ospeed = speed_t(baud)]

\* SizeFlag with case 7 setting CS8
SizeFlag_SevenAsEight(bits) ==
    CASE bits = 5 -> CS5
      [] bits = 6 -> CS6
      [] bits = 7 -> CS8
      [] bits = 8 -> CS8
      [] OTHER -> -1

\* the DataBits switch: the size constant OR'd into c_cflag, -1 for default
SizeFlag(bits) ==
    CASE bits = 5 -> CS5
      [] bits = 6 -> CS6
      [] bits = 7 -> CS7
      [] bits = 8 -> CS8
      [] OTHER -> -1

\* convertOptions(options): the pair (result, err) it returns
convertOptions(opts) ==
    IF opts.BaudRate \notin BaudRateCases
    THEN [result |-> NilTermios, err |-> NewError("Invalid setting for BaudRate.")]
    ELSE IF SizeFlag(opts.DataBits) = -1
    THEN [result |-> NilTermios, err |-> NewError("Invalid setting for DataBits.")]
    ELSE [result |-> [WithSpeed(FixedSettings, opts.BaudRate)
                        EXCEPT !.c_cflag = BitOr(@, SizeFlag(opts.DataBits))],
          err |-> Nil]

\* setTermios without the check of the return value
setTermios_IgnoreR1(r1, errno) ==
    IF NewSyscallError("SYS_IOCTL", errno) # Nil
    THEN NewSyscallError("SYS_IOCTL", errno)
    ELSE Nil

\* setTermios with the check of the return value made first
setTermios_R1First(r1, errno) ==
    IF r1 # 0
    THEN NewError("Unknown error from SYS_IOCTL.")
    ELSE IF NewSyscallError("SYS_IOCTL", errno) # Nil
    THEN NewSyscallError("SYS_IOCTL", errno)
    ELSE Nil

\* setTermios: the error it returns for the ioctl's r1 and errno
setTermios(r1, errno) ==
    IF NewSyscallError("SYS_IOCTL", errno) # Nil
    THEN NewSyscallError("SYS_IOCTL", errno)
    ELSE IF r1 # 0
    THEN NewError("Unknown error from SYS_IOCTL.")
    ELSE Nil

(***************************************************************************)
(* The operating system: descriptors and what the kernel holds for them.   *)
(***************************************************************************)
Fds == 3 .. MaxFd
NoFile == 0

\* the flags openInternal passes to os.OpenFile
OpenFlags == {"O_RDWR", "O_NOCTTY", "O_NONBLOCK"}

\* the file status flags F_SETFL replaces
StatusFlags == {"O_NONBLOCK", "O_APPEND", "O_ASYNC"}

ClosedFd == [open |-> FALSE, flags |-> {}, attr |-> NilTermios]

\* What a system call did, given what it returned: it took effect when it
\* returned r1 = 0 with errno = 0 and did not when errno is set; a non-zero
\* r1 without errno is undocumented and either may have happened.
Effects(r1, errno) ==
    IF errno # 0 THEN {FALSE}
    ELSE IF r1 = 0 THEN {TRUE}
    ELSE BOOLEAN

(***************************************************************************)
(* The caller's inputs.                                                    *)
(***************************************************************************)
PortNames == {"/dev/tty.usbserial", "/dev/missing"}

BaudRates ==
    {b + d : b \in BaudRateCases, d \in (0 - BaudSlack) .. BaudSlack} \cup {0}

DataBitsValues == 0 .. MaxDataBits

OpenOptions ==
    [PortName : PortNames, BaudRate : BaudRates, DataBits : DataBitsValues]

(***************************************************************************)
(* State.                                                                  *)
(***************************************************************************)
VARIABLES
    pc,               \* the statement openInternal is at
    options,          \* the argument of openInternal
    file,             \* the descriptor of the opened file, NoFile before
    err,              \* the local err
    terminalOptions,  \* the local terminalOptions
    ret,              \* what openInternal returned: handle and error
    fdtable,          \* the kernel's state of each descriptor
    steps,            \* the statements openInternal has executed, in order
    syscalls          \* the system calls issued, in order, with what each returned

vars == <<pc, options, file, err, terminalOptions, ret, fdtable, steps, syscalls>>

NoReturn == [handle |-> NoFile, err |-> Nil]

Init ==
    /\ pc = "OpenFile"
    /\ options \in OpenOptions
    /\ file = NoFile
    /\ err = Nil
    /\ terminalOptions = NilTermios
    /\ ret = NoReturn
    /\ fdtable = [fd \in Fds |-> ClosedFd]
    /\ steps = <<>>
    /\ syscalls = <<>>

\* return nil, e
ReturnError(e) ==
    /\ ret' = [handle |-> NoFile, err |-> e]
    /\ pc' = "done"

\* os.OpenFile(options.PortName, O_RDWR|O_NOCTTY|O_NONBLOCK, 0600) fails
OpenFileFails ==
    /\ pc = "OpenFile"
    /\ \E errno \in 1 .. MaxErrno :
          /\ err' = PathError(options.PortName, errno)
          /\ ReturnError(PathError(options.PortName, errno))
          /\ syscalls' = Append(syscalls, [call |-> "open", r1 |-> -1, errno |-> errno])
    /\ steps' = Append(steps, "OpenFile")
    /\ UNCHANGED <<options, file, terminalOptions, fdtable>>

\* os.OpenFile succeeds and yields a descriptor
OpenFileSucceeds ==
    /\ pc = "OpenFile"
    /\ \E fd \in Fds :
          /\ ~fdtable[fd].open
          /\ file' = fd
          /\ fdtable' = [fdtable EXCEPT ![fd] =
                            [open |-> TRUE, flags |-> OpenFlags, attr |-> NilTermios]]
          /\ syscalls' = Append(syscalls, [call |-> "open", r1 |-> fd, errno |-> 0])
    /\ err' = Nil
    /\ pc' = "Fcntl"
    /\ steps' = Append(steps, "OpenFile")
    /\ UNCHANGED <<options, terminalOptions, ret>>

\* FcntlError without the check of the return value
FcntlError_IgnoreR1(r1, errno) ==
    IF NewSyscallError("SYS_IOCTL", errno) # Nil
    THEN NewSyscallError("SYS_IOCTL", errno)
    ELSE Nil

\* the error openInternal derives from fcntl's r1 and errno
FcntlError(r1, errno) ==
    IF NewSyscallError("SYS_IOCTL", errno) # Nil
    THEN NewSyscallError("SYS_IOCTL", errno)
    ELSE IF r1 # 0
    THEN NewError("Unknown error from SYS_FCNTL.")
    ELSE Nil

\* syscall.Syscall(SYS_FCNTL, file.Fd(), F_SETFL, 0) and the two checks
Fcntl ==
    /\ pc = "Fcntl"
    /\ \E r1 \in 0 .. MaxR1, errno \in 0 .. MaxErrno :
          /\ \E done \in Effects(r1, errno) :
                fdtable' = IF done
                           THEN [fdtable EXCEPT ![file].flags = @ \ StatusFlags]
                           ELSE fdtable
          /\ IF FcntlError(r1, errno) # Nil
             THEN ReturnError(FcntlError(r1, errno))
             ELSE /\ pc' = "convertOptions"
                  /\ ret' = ret
          /\ syscalls' = Append(syscalls, [call |-> "fcntl", r1 |-> r1, errno |-> errno])
    /\ steps' = Append(steps, "Fcntl")
    /\ UNCHANGED <<options, file, err, terminalOptions>>

\* ConvertOptions without the check of err
ConvertOptions_NoCheck ==
    /\ pc = "convertOptions"
    /\ terminalOptions' = convertOptions(options).result
    /\ err' = convertOptions(options).err
    /\ pc' = "setTermios"
    /\ ret' = ret
    /\ steps' = Append(steps, "convertOptions")
    /\ UNCHANGED <<options, file, fdtable, syscalls>>

\* terminalOptions, err := convertOptions(options) and the check
ConvertOptions ==
    /\ pc = "convertOptions"
    /\ terminalOptions' = convertOptions(options).result
    /\ err' = convertOptions(options).err
    /\ IF convertOptions(options).err # Nil
       THEN ReturnError(convertOptions(options).err)
       ELSE /\ pc' = "setTermios"
            /\ ret' = ret
    /\ steps' = Append(steps, "convertOptions")
    /\ UNCHANGED <<options, file, fdtable, syscalls>>

\* err = setTermios(file.Fd(), terminalOptions) and the check
SetTermios ==
    /\ pc = "setTermios"
    /\ \E r1 \in 0 .. MaxR1, errno \in 0 .. MaxErrno :
          /\ \E done \in Effects(r1, errno) :
                fdtable' = IF done
                           THEN [fdtable EXCEPT ![file].attr = terminalOptions]
                           ELSE fdtable
          /\ err' = setTermios(r1, errno)
          /\ IF setTermios(r1, errno) # Nil
             THEN ReturnError(setTermios(r1, errno))
             ELSE /\ pc' = "return"
                  /\ ret' = ret
          /\ syscalls' = Append(syscalls, [call |-> "ioctl", r1 |-> r1, errno |-> errno])
    /\ steps' = Append(steps, "setTermios")
    /\ UNCHANGED <<options, file, terminalOptions>>

\* return file, nil
Return ==
    /\ pc = "return"
    /\ ret' = [handle |-> file, err |-> Nil]
    /\ pc' = "done"
    /\ steps' = Append(steps, "return")
    /\ UNCHANGED <<options, file, err, terminalOptions, fdtable, syscalls>>

Next ==
    \/ OpenFileFails
    \/ OpenFileSucceeds
    \/ Fcntl
    \/ ConvertOptions
    \/ SetTermios
    \/ Return

Spec == Init /\ [][Next]_vars

\* openInternal is straight-line synchronous code: it keeps running until it
\* returns
FairSpec == Spec /\ WF_vars(Next)

(***************************************************************************)
(* Vocabulary of the properties.                                           *)
(***************************************************************************)
RECURSIVE BitAnd(_, _)
\* a & b on naturals
BitAnd(a, b) ==
    IF a = 0 \/ b = 0 THEN 0
    ELSE (IF a % 2 = 1 /\ b % 2 = 1 THEN 1 ELSE 0) + 2 * BitAnd(a \div 2, b \div 2)

\* the enumerated sets of the specification
SpecBaudRates ==
    {50, 75, 110, 134, 150, 200, 300, 600, 1200, 1800, 2400, 4800, 7200, 9600,
     14400, 19200, 28800, 38400, 57600, 76800, 115200, 230400}

SpecDataBits == {5, 6, 7, 8}

ValidConfiguration ==
    options.BaudRate \in SpecBaudRates /\ options.DataBits \in SpecDataBits

\* the fixed order of the open sequence
Sequence == <<"OpenFile", "Fcntl", "convertOptions", "setTermios", "return">>

Executed(step) == \E i \in DOMAIN steps : steps[i] = step

Issued(call) == \E i \in DOMAIN syscalls : syscalls[i].call = call

\* what the (first) system call of that name returned
Outcome(call) ==
    syscalls[CHOOSE i \in DOMAIN syscalls :
                /\ syscalls[i].call = call
                /\ \A j \in 1 .. i - 1 : syscalls[j].call # call]

\* the system call of that name was issued and reported no error and, for
\* the two control calls, a zero return value
Succeeded(call) ==
    /\ Issued(call)
    /\ Outcome(call).errno = 0
    /\ call # "open" => Outcome(call).r1 = 0

Failed(call) == Issued(call) /\ ~Succeeded(call)

\* the failure taxonomy, read off the error values the code builds
IsOpenFailed(e) == e.type = "PathError" /\ e.errno # 0

IsFlagUpdateFailed(e) ==
    \/ e.type = "SyscallError" /\ e.errno # 0
    \/ e = [type |-> "ErrorString", text |-> "Unknown error from SYS_FCNTL.", errno |-> 0]

IsInvalidBaudRate(e) ==
    e = [type |-> "ErrorString", text |-> "Invalid setting for BaudRate.", errno |-> 0]

IsInvalidDataBits(e) ==
    e = [type |-> "ErrorString", text |-> "Invalid setting for DataBits.", errno |-> 0]

IsInvalidOption(e) == IsInvalidBaudRate(e) \/ IsInvalidDataBits(e)

IsAttributeApplyFailed(e) == e.type = "SyscallError" /\ e.errno # 0

IsUnexpectedControlResult(e) ==
    e = [type |-> "ErrorString", text |-> "Unknown error from SYS_IOCTL.", errno |-> 0]

IsNil(e) == e.type = "nil"

OpenDescriptors == {fd \in Fds : fdtable[fd].open}

\* the step that ran last is the translation
AfterConvert == steps # <<>> /\ steps[Len(steps)] = "convertOptions"

\* the translation ran and produced a record
Translated == AfterConvert /\ IsNil(err) /\ terminalOptions # NilTermios

(***************************************************************************)
(* C1: the steps of openInternal happen in the fixed order open-device     *)
(* (read-write, no controlling terminal, non-blocking), clear the          *)
(* non-blocking flag, translate the options, apply the attributes, return  *)
(* the handle; a step is started only after the previous one has           *)
(* succeeded, and a failed step is the last step executed.                 *)
(***************************************************************************)
C1_FixedOrder ==
    /\ Len(steps) <= Len(Sequence)
    /\ \A i \in DOMAIN steps : steps[i] = Sequence[i]
    /\ Executed("OpenFile") /\ pc = "Fcntl" => fdtable[file].flags = {"O_RDWR", "O_NOCTTY", "O_NONBLOCK"}
    /\ Executed("Fcntl") => Succeeded("open")
    /\ Executed("convertOptions") => Succeeded("fcntl")
    /\ Executed("setTermios") => ValidConfiguration
    /\ Executed("return") => Succeeded("ioctl")
    /\ Failed("open") => steps = <<"OpenFile">> /\ pc = "done"
    /\ Failed("fcntl") => steps = <<"OpenFile", "Fcntl">> /\ pc = "done"
    /\ Executed("convertOptions") /\ ~ValidConfiguration =>
          steps = <<"OpenFile", "Fcntl", "convertOptions">> /\ pc = "done"
    /\ Failed("ioctl") =>
          steps = <<"OpenFile", "Fcntl", "convertOptions", "setTermios">> /\ pc = "done"

\* a complete run of the five steps
C1_Witness == pc = "done" /\ steps = Sequence

(***************************************************************************)
(* C2: a Configuration whose BaudRate or DataBits is outside its           *)
(* enumerated set is rejected with InvalidOption before any OS call: when  *)
(* openInternal has returned InvalidOption, no system call has been issued *)
(* and no descriptor has been opened.                                      *)
(***************************************************************************)
C2_RejectedBeforeAnyCall ==
    pc = "done" /\ IsInvalidOption(ret.err) =>
        /\ ~ValidConfiguration
        /\ syscalls = <<>>
        /\ OpenDescriptors = {}

(***************************************************************************)
(* C3: when a step after the open fails, the descriptor is closed before   *)
(* the error is returned: in a terminal state with an error no descriptor  *)
(* opened by the call is still open.                                       *)
(***************************************************************************)
C3_ClosedOnFailure ==
    pc = "done" /\ ~IsNil(ret.err) => OpenDescriptors = {}

(***************************************************************************)
(* C4: openInternal returns a handle if and only if the open, the flag     *)
(* clear, the translation and the attribute application all succeeded; an  *)
(* error comes with a nil handle, and a returned handle is an open         *)
(* descriptor whose non-blocking flag is cleared and whose attributes are  *)
(* the record derived from the caller's Configuration.                     *)
(***************************************************************************)
C4_HandleIffAllSucceeded ==
    /\ pc # "done" => ret = NoReturn
    /\ pc = "done" =>
        /\ ~IsNil(ret.err) => ret.handle = NoFile
        /\ ret.handle # NoFile <=>
              /\ Succeeded("open")
              /\ Succeeded("fcntl")
              /\ ValidConfiguration
              /\ Succeeded("ioctl")
        /\ ret.handle # NoFile =>
              /\ IsNil(ret.err)
              /\ ret.handle = Outcome("open").r1
              /\ fdtable[ret.handle].open
              /\ "O_NONBLOCK" \notin fdtable[ret.handle].flags
              /\ fdtable[ret.handle].attr # NilTermios
              /\ fdtable[ret.handle].attr = terminalOptions
              /\ fdtable[ret.handle].attr.c_ispeed = options.BaudRate
              /\ fdtable[ret.handle].attr.c_ospeed = options.BaudRate

\* a handle has been returned
C4_Witness == pc = "done" /\ ret.handle # NoFile /\ IsNil(ret.err)

\* the bits of c_cflag that hold the character size
SizeBits(cflag) == BitAnd(cflag, BitOr(BitOr(CS5, CS6), BitOr(CS7, CS8)))

\* the size pattern the specification assigns to a DataBits value
SpecSize(bits) ==
    CASE bits = 5 -> CS5 [] bits = 6 -> CS6 [] bits = 7 -> CS7 [] bits = 8 -> CS8

(***************************************************************************)
(* C5: for a BaudRate of the enumerated set (and valid DataBits)           *)
(* convertOptions succeeds and sets the input speed and the output speed   *)
(* to that value; for any other BaudRate it fails with "Invalid setting    *)
(* for BaudRate." and returns no record.                                   *)
(***************************************************************************)
C5_BaudRate ==
    AfterConvert =>
        /\ ValidConfiguration =>
              /\ IsNil(err)
              /\ terminalOptions # NilTermios
              /\ terminalOptions.c_ispeed = options.BaudRate
              /\ terminalOptions.c_ospeed = options.BaudRate
        /\ options.BaudRate \notin SpecBaudRates =>
              /\ IsInvalidBaudRate(err)
              /\ terminalOptions = NilTermios

\* the translation of the highest rate
C5_Witness ==
    /\ Translated
    /\ options.BaudRate = 230400
    /\ terminalOptions.c_ospeed = 230400

(***************************************************************************)
(* C6: for DataBits in 5..8 (and a valid BaudRate) convertOptions sets     *)
(* exactly one of the size patterns CS5, CS6, CS7, CS8 in the control      *)
(* flags, the one of that DataBits value, and the four patterns are        *)
(* pairwise distinct; for any other DataBits it fails with "Invalid        *)
(* setting for DataBits." and returns no record.                           *)
(***************************************************************************)
C6_DataBits ==
    AfterConvert /\ options.BaudRate \in SpecBaudRates =>
        /\ options.DataBits \in SpecDataBits =>
              /\ IsNil(err)
              /\ terminalOptions # NilTermios
              /\ SizeBits(terminalOptions.c_cflag) = SpecSize(options.DataBits)
              /\ Cardinality({b \in SpecDataBits :
                                SizeBits(terminalOptions.c_cflag) = SpecSize(b)}) = 1
        /\ Cardinality({SpecSize(b) : b \in SpecDataBits}) = 4
        /\ options.DataBits \notin SpecDataBits =>
              /\ IsInvalidDataBits(err)
              /\ terminalOptions = NilTermios

\* the translation of seven data bits
C6_Witness ==
    /\ Translated
    /\ options.DataBits = 7
    /\ SizeBits(terminalOptions.c_cflag) = CS7

(***************************************************************************)
(* C7: every record convertOptions returns has CLOCAL and CREAD set in the *)
(* control flags, IGNPAR set in the input flags, c_cc[VTIME] = 0 and       *)
(* c_cc[VMIN] = 1, whatever the BaudRate and DataBits; for BaudRate 9600   *)
(* and DataBits 8 the control flags are CS8|CLOCAL|CREAD and both speeds   *)
(* are 9600.                                                               *)
(***************************************************************************)
C7_FixedFlags ==
    AfterConvert /\ terminalOptions # NilTermios =>
        /\ BitAnd(terminalOptions.c_cflag, CLOCAL) = CLOCAL
        /\ BitAnd(terminalOptions.c_cflag, CREAD) = CREAD
        /\ BitAnd(terminalOptions.c_iflag, IGNPAR) = IGNPAR
        /\ terminalOptions.c_cc[VTIME] = 0
        /\ terminalOptions.c_cc[VMIN] = 1
        /\ options.BaudRate = 9600 /\ options.DataBits = 8 =>
              /\ terminalOptions.c_cflag = BitOr(CS8, BitOr(CLOCAL, CREAD))
              /\ terminalOptions.c_ispeed = 9600
              /\ terminalOptions.c_ospeed = 9600

\* scenario A: 9600 baud, 8 data bits
C7_Witness ==
    /\ Translated
    /\ options.BaudRate = 9600
    /\ options.DataBits = 8
    /\ BitAnd(terminalOptions.c_cflag, CREAD) = CREAD

(***************************************************************************)
(* C8, as stated: after a successful translation the "minimum bytes"       *)
(* control character is 0 and the "inter-byte timeout" control character   *)
(* is 1.                                                                   *)
(***************************************************************************)
C8_MinZeroTimeOne ==
    AfterConvert /\ terminalOptions # NilTermios =>
        /\ terminalOptions.c_cc[VMIN] = 0
        /\ terminalOptions.c_cc[VTIME] = 1

(***************************************************************************)
(* C8, amended: after a successful translation the "minimum bytes"         *)
(* control character is 1 and the "inter-byte timeout" control character   *)
(* is 0, whatever the BaudRate and DataBits.                               *)
(***************************************************************************)
C8_MinOneTimeZero ==
    AfterConvert /\ IsNil(err) =>
        /\ terminalOptions.c_cc[VMIN] = 1
        /\ terminalOptions.c_cc[VTIME] = 0

\* a translation that set the two control characters
C8_Witness ==
    /\ Translated
    /\ options.DataBits = 5
    /\ terminalOptions.c_cc[VMIN] = 1
    /\ terminalOptions.c_cc[VTIME] = 0

(***************************************************************************)
(* C9: setTermios issues the set-attributes call once; an OS-level error   *)
(* gives AttributeApplyFailed, and takes precedence; otherwise a non-zero  *)
(* return value gives "Unknown error from SYS_IOCTL."; it succeeds only    *)
(* with no OS error and a zero return value.  openInternal returns either  *)
(* failure unchanged, with no handle.                                      *)
(***************************************************************************)
C9_SetTermiosOutcome ==
    /\ Cardinality({i \in DOMAIN syscalls : syscalls[i].call = "ioctl"}) <= 1
    /\ Executed("setTermios") <=> Issued("ioctl")
    /\ Executed("setTermios") =>
        /\ Outcome("ioctl").errno # 0 =>
              /\ IsAttributeApplyFailed(err)
              /\ err.errno = Outcome("ioctl").errno
        /\ Outcome("ioctl").errno = 0 /\ Outcome("ioctl").r1 # 0 =>
              IsUnexpectedControlResult(err)
        /\ IsNil(err) <=> Outcome("ioctl").errno = 0 /\ Outcome("ioctl").r1 = 0
        /\ ~IsNil(err) => pc = "done" /\ ret = [handle |-> NoFile, err |-> err]

\* the call reported an OS error together with a non-zero return value
C9_Witness ==
    /\ Executed("setTermios")
    /\ Outcome("ioctl").errno # 0
    /\ Outcome("ioctl").r1 # 0
    /\ IsAttributeApplyFailed(ret.err)

(***************************************************************************)
(* C10: every call of openInternal eventually reaches a terminal state,    *)
(* Ready (a handle, no error) or Failed (an error, no handle), and stays   *)
(* there; no step is executed twice; and the failure returned is that of   *)
(* the first step that failed.                                             *)
(***************************************************************************)
Ready == pc = "done" /\ ret.handle # NoFile /\ IsNil(ret.err)

FailedState == pc = "done" /\ ret.handle = NoFile /\ ~IsNil(ret.err)

NoStepTwice ==
    /\ \A i, j \in DOMAIN steps : steps[i] = steps[j] => i = j
    /\ \A i, j \in DOMAIN syscalls : syscalls[i].call = syscalls[j].call => i = j

FirstFailureReturned ==
    pc = "done" =>
        /\ Ready # FailedState
        /\ IF Failed("open") THEN IsOpenFailed(ret.err)
           ELSE IF Failed("fcntl") THEN IsFlagUpdateFailed(ret.err)
           ELSE IF ~ValidConfiguration THEN IsInvalidOption(ret.err)
           ELSE IF Failed("ioctl")
                THEN IF Outcome("ioctl").errno # 0
                     THEN IsAttributeApplyFailed(ret.err)
                     ELSE IsUnexpectedControlResult(ret.err)
           ELSE Ready

====
